---- MODULE Spec2Model ----
(***************************************************************************)
(* recipe-graphql: the recipe repository (src/repository/recipe.rs), the   *)
(* GraphQL query root that calls it (src/graphql.rs) and the session       *)
(* cookie parser of the request context (src/route.rs).                    *)
(*                                                                         *)
(* The three Postgres tables are sets of rows.  A query without ORDER BY   *)
(* returns its rows in an order the store chooses, so every query result   *)
(* is a sequence drawn from all enumerations of the selected rows.         *)
(***************************************************************************)
EXTENDS Integers, Sequences, FiniteSets, TLC

VARIABLES db, tx, rd, commits, request

vars == <<db, tx, rd, commits, request>>

-----------------------------------------------------------------------------
(* Bounds and input domains *)

RecipeNames == {"Pancakes", "Omelette"}

IngredientNames == {"Flour", "Egg"}

Qtys == {"1 cup", "2 cups"}

Chars == {"a", "b", "#"}

\* longest ingredient list of a NewRecipe
MaxIngs == 2

\* longest name list given to recipesByIngredients
MaxNames == 2

\* number of insert_recipe transactions that may commit
MaxCommits == 2

\* longest session cookie value
MaxTokenLen == 5

SeqsUpTo(S, n) == UNION {[1..k -> S] : k \in 0..n}

NewIngredients == [name : IngredientNames, qty : Qtys]

NewRecipes == [name : RecipeNames, ingredients : SeqsUpTo(NewIngredients, MaxIngs)]

NameLists == SeqsUpTo(IngredientNames, MaxNames)

RECURSIVE Orders(_)
\* every order in which the store may return the rows of S
Orders(S) == IF S = {} THEN {<<>>} ELSE UNION {{<<x>> \o p : p \in Orders(S \ {x})} : x \in S}

Range(s) == {s[i] : i \in 1..Len(s)}

Min(a, b) == IF a <= b THEN a ELSE b

-----------------------------------------------------------------------------
(* Rows and tables *)

EmptyDb == [recipes |-> {}, ingredients |-> {}, recipe_ingredients |-> {}]

NoRow == [id |-> 0, name |-> ""]

NoNewRecipe == [name |-> "", ingredients |-> <<>>]

HasName(tbl, name) == \E r \in tbl : r.name = name

RowByName(tbl, name) == CHOOSE r \in tbl : r.name = name

\* the serial id of a new row; ids are only ever compared for equality, so the
\* gaps a Postgres sequence leaves after conflicts and rollbacks are not kept
NextId(tbl) == Cardinality(tbl) + 1

\* Postgres rejects an INSERT .. ON CONFLICT DO UPDATE whose VALUES hold the
\* conflict key twice ("command cannot affect row a second time")
affects_row_twice(keys) == \E i, j \in 1..Len(keys) : i < j /\ keys[i] = keys[j]

\* INSERT (name) ON CONFLICT (name) DO UPDATE SET name = excluded.name RETURNING *
upsert_by_name(tbl, name) ==
    IF HasName(tbl, name)
    THEN [table |-> tbl, row |-> RowByName(tbl, name)]
    ELSE LET r == [id |-> NextId(tbl), name |-> name]
         IN  [table |-> tbl \cup {r}, row |-> r]

RECURSIVE upsert_many_by_name(_, _)
\* the bulk form: one row returned for each of the VALUES, in their order
upsert_many_by_name(tbl, names) ==
    IF names = <<>>
    THEN [table |-> tbl, rows |-> <<>>]
    ELSE LET first == upsert_by_name(tbl, Head(names))
             rest == upsert_many_by_name(first.table, Tail(names))
         IN  [table |-> rest.table, rows |-> <<first.row>> \o rest.rows]

\* the same statement with DO NOTHING: a conflicting row keeps its quantity
upsert_qty_keep(tbl, new) ==
    IF \E ri \in tbl : ri.recipe_id = new.recipe_id /\ ri.ingredient_id = new.ingredient_id
    THEN tbl
    ELSE tbl \cup {new}

\* INSERT .. ON CONFLICT (recipe_id, ingredient_id) DO UPDATE SET qty = excluded.qty
upsert_qty(tbl, new) ==
    {ri \in tbl : ~(ri.recipe_id = new.recipe_id /\ ri.ingredient_id = new.ingredient_id)}
        \cup {new}

RECURSIVE upsert_many_qty(_, _)
upsert_many_qty(tbl, news) ==
    IF news = <<>>
    THEN [table |-> tbl, rows |-> <<>>]
    ELSE LET rest == upsert_many_qty(upsert_qty(tbl, Head(news)), Tail(news))
         IN  [table |-> rest.table, rows |-> <<Head(news)>> \o rest.rows]

\* gql::Recipe::from_pg: the API-facing recipe of one recipe row and its joined
\* (RecipeIngredient, Ingredient) pairs, in the order the pairs are supplied
from_pg(r, ings) ==
    [name |-> r.name,
     ingredients |-> [k \in 1..Len(ings) |-> [name |-> ings[k][2].name, qty |-> ings[k][1].qty]]]

\* pg::NewIngredient::from_graphql_many: the names to insert, in input order
from_graphql_many(new_ingredients) ==
    [k \in 1..Len(new_ingredients) |-> new_ingredients[k].name]

-----------------------------------------------------------------------------
(* insert_recipe: one transaction of three statements *)

IdleTx ==
    [pc |-> "idle", recipe |-> NoNewRecipe, before |-> EmptyDb, work |-> EmptyDb,
     inserted_recipe |-> NoRow, inserted_ingredients |-> <<>>,
     inserted_recipe_ingredients |-> <<>>, returned |-> NoNewRecipe]

\* BEGIN: the transaction works on its own view of the store
tx_begin(d, recipe) == [IdleTx EXCEPT !.pc = "begun", !.recipe = recipe, !.before = d, !.work = d]

\* ROLLBACK: an Err leaving the closure discards the transaction's writes, and
\* the call's argument and returned rows go with the closure
tx_rollback(t) == [IdleTx EXCEPT !.pc = "rolled_back", !.before = t.before, !.work = t.before]

stmt_recipe(t) ==
    LET u == upsert_by_name(t.work.recipes, t.recipe.name)
    IN  [t EXCEPT !.pc = "recipe", !.work.recipes = u.table, !.inserted_recipe = u.row]

stmt_ingredients(t) ==
    LET names == from_graphql_many(t.recipe.ingredients)
        u == upsert_many_by_name(t.work.ingredients, names)
    IN  IF affects_row_twice(names)
        THEN tx_rollback(t)
        ELSE [t EXCEPT !.pc = "ingredients", !.work.ingredients = u.table,
                       !.inserted_ingredients = u.rows]

new_recipe_ingredients(t) ==
    [k \in 1..Min(Len(t.inserted_ingredients), Len(t.recipe.ingredients)) |->
        [recipe_id |-> t.inserted_recipe.id,
         ingredient_id |-> t.inserted_ingredients[k].id,
         qty |-> t.recipe.ingredients[k].qty]]

stmt_recipe_ingredients(t) ==
    LET news == new_recipe_ingredients(t)
        keys == [k \in 1..Len(news) |-> <<news[k].recipe_id, news[k].ingredient_id>>]
        u == upsert_many_qty(t.work.recipe_ingredients, news)
    IN  IF affects_row_twice(keys)
        THEN tx_rollback(t)
        ELSE [t EXCEPT !.pc = "recipe_ingredients", !.work.recipe_ingredients = u.table,
                       !.inserted_recipe_ingredients = u.rows]

\* Ok leaves the closure: COMMIT, and the recipe built from the returned rows
tx_commit(t) ==
    LET n == Min(Len(t.inserted_recipe_ingredients), Len(t.inserted_ingredients))
        zipped == [k \in 1..n |-> <<t.inserted_recipe_ingredients[k], t.inserted_ingredients[k]>>]
    IN  [t EXCEPT !.pc = "committed", !.returned = from_pg(t.inserted_recipe, zipped)]

\* the statements run outside a transaction: each is readable as it is made
autocommit(committed, t) == t.work

\* conn.transaction: other connections see the writes once it has committed
transaction(committed, t) == IF t.pc = "committed" THEN t.work ELSE committed

\* one round trip of the open transaction; a store error ends it in ROLLBACK
tx_step(t, store_error) ==
    IF store_error
    THEN tx_rollback(t)
    ELSE CASE t.pc = "begun" -> stmt_recipe(t)
           [] t.pc = "recipe" -> stmt_ingredients(t)
           [] t.pc = "ingredients" -> stmt_recipe_ingredients(t)
           [] t.pc = "recipe_ingredients" -> tx_commit(t)
           [] OTHER -> t

RECURSIVE run_from(_, _, _)
\* the whole closure from round trip k on; a store error strikes at round trip fail_at
run_from(t, k, fail_at) ==
    IF t.pc \in {"committed", "rolled_back"}
    THEN t
    ELSE run_from(tx_step(t, k = fail_at), k + 1, fail_at)

TxOpen == tx.pc \in {"begun", "recipe", "ingredients", "recipe_ingredients"}

-----------------------------------------------------------------------------
(* Query results *)

NoResult == [status |-> "none", recipes |-> <<>>, msg |-> "", key |-> "", wanted |-> <<>>, found |-> <<>>]

Ok(recipes) == [NoResult EXCEPT !.status = "ok", !.recipes = recipes]

\* the lookup answered Ok(None) rather than an error
no_recipe_as_none(name) == Ok(<<>>)

\* FieldError::new(format!("No recipe with name {}", recipe_name), ..)
no_recipe_with_name(name) == [NoResult EXCEPT !.status = "err", !.msg = "No recipe with name", !.key = name]

\* FieldError::new(format!("No ingredient with name {}", ingredient_name), ..)
no_ingredient_with_name(name) == [NoResult EXCEPT !.status = "err", !.msg = "No ingredient with name", !.key = name]

\* FieldError::new(format!("Not all ingredients found. Wanted: {:?}. Found: {:?}", ..), ..)
not_all_found(names, found) ==
    [NoResult EXCEPT !.status = "err", !.msg = "Not all ingredients found", !.wanted = names, !.found = found]

\* recipes::table.filter(name.eq(..)) / ingredients::table.filter(name.eq(..))
rows_named(tbl, name) == {r \in tbl : r.name = name}

\* ingredients::table.filter(ingredients::name.eq_any(names))
rows_named_any(tbl, names) == {r \in tbl : r.name \in Range(names)}

\* RecipeIngredient::belonging_to(ingredients).inner_join(recipes::table)
assoc_join_recipes(d, ings) ==
    {<<ri, r>> \in d.recipe_ingredients \X d.recipes :
        ri.recipe_id = r.id /\ ri.ingredient_id \in {i.id : i \in Range(ings)}}

\* .select(recipes::all_columns)
select_recipes(joined) == [k \in 1..Len(joined) |-> joined[k][2]]

\* RecipeIngredient::belonging_to(recipes).inner_join(ingredients::table)
assoc_join_ingredients(d, rs) ==
    {<<ri, i>> \in d.recipe_ingredients \X d.ingredients :
        ri.ingredient_id = i.id /\ ri.recipe_id \in {r.id : r \in Range(rs)}}

\* the index the HashMap of grouped_by holds for a parent id: collecting
\* (id, index) pairs keeps the last index of an id that occurs more than once
id_index(parents, id) ==
    CHOOSE i \in 1..Len(parents) :
        parents[i].id = id /\ \A j \in 1..Len(parents) : parents[j].id = id => j <= i

\* a grouping by id equality: every occurrence of a parent gets the children
grouped_by_each(children, parents) ==
    [i \in 1..Len(parents) |-> SelectSeq(children, LAMBDA c : c[1].recipe_id = parents[i].id)]

\* diesel's grouped_by: one group per parent, each child in the group of the
\* index its foreign key maps to
grouped_by(children, parents) ==
    [i \in 1..Len(parents) |->
        SelectSeq(children, LAMBDA c : id_index(parents, c[1].recipe_id) = i)]

\* pg_ingredients.iter().all(|ing| found.contains(&ing))
has_all_ingredients(ings, pg_ingredients) ==
    LET found == {ings[k][2] : k \in 1..Len(ings)}
    IN  \A ing \in Range(pg_ingredients) : ing \in found

\* ingredient_names.len() != pg_ingredients.len()
resolution_incomplete(names, pg_ingredients) == Len(names) # Len(pg_ingredients)

RECURSIVE filter_zip(_, _, _)
\* .into_iter().zip(pg_recipes).filter(..): the (ingredients, recipe) pairs kept
filter_zip(groups, pg_recipes, pg_ingredients) ==
    IF groups = <<>> \/ pg_recipes = <<>>
    THEN <<>>
    ELSE (IF has_all_ingredients(Head(groups), pg_ingredients)
          THEN <<(<<Head(groups), Head(pg_recipes)>>)>>
          ELSE <<>>)
         \o filter_zip(Tail(groups), Tail(pg_recipes), pg_ingredients)

\* pg_recipes.iter().zip(groups).map(from_pg)
zip_from_pg(pg_recipes, groups) ==
    [k \in 1..Min(Len(pg_recipes), Len(groups)) |-> from_pg(pg_recipes[k], groups[k])]

-----------------------------------------------------------------------------
(* The three queries of the GraphQL root, one store round trip at a time *)

IdleRd ==
    [op |-> "none", name |-> "", names |-> <<>>, pc |-> "idle", pg_ingredients |-> <<>>,
     pg_recipes |-> <<>>, result |-> NoResult, started |-> 0, finished |-> 0]

\* a request draws a connection from the pool; `started` is the number of
\* transactions committed before its first query
StartRd(op, name, names) ==
    [IdleRd EXCEPT !.op = op, !.name = name, !.names = names, !.pc = "start", !.started = commits]

\* the value handed back to juniper; `finished` is the number of transactions
\* committed before the last query
Done(q, result) == [q EXCEPT !.pc = "done", !.result = result, !.finished = commits]

get_recipe_by_name_q1(q, d) ==
    LET rows == rows_named(d.recipes, q.name)
    IN  IF rows = {}
        THEN Done(q, no_recipe_with_name(q.name))
        ELSE [q EXCEPT !.pc = "recipe", !.pg_recipes = <<CHOOSE r \in rows : TRUE>>]

get_recipe_by_name_q2(q, ings) == Done(q, Ok(<<from_pg(q.pg_recipes[1], ings)>>))

get_recipes_by_ingredient_name_q1(q, d) ==
    LET rows == rows_named(d.ingredients, q.name)
    IN  IF rows = {}
        THEN Done(q, no_ingredient_with_name(q.name))
        ELSE [q EXCEPT !.pc = "ingredient", !.pg_ingredients = <<CHOOSE r \in rows : TRUE>>]

get_recipes_by_ingredient_name_q2(q, joined) ==
    [q EXCEPT !.pc = "recipes", !.pg_recipes = select_recipes(joined)]

\* the recipes built from the associations of the queried ingredient alone
get_recipes_by_ingredient_name_q3_matched(q, ings) ==
    LET matched == SelectSeq(ings, LAMBDA c : c[2] \in Range(q.pg_ingredients))
    IN  Done(q, Ok(zip_from_pg(q.pg_recipes, grouped_by(matched, q.pg_recipes))))

get_recipes_by_ingredient_name_q3(q, ings) ==
    Done(q, Ok(zip_from_pg(q.pg_recipes, grouped_by(ings, q.pg_recipes))))

get_recipes_by_ingredient_names_q1(q, found) ==
    IF resolution_incomplete(q.names, found)
    THEN Done(q, not_all_found(q.names, found))
    ELSE [q EXCEPT !.pc = "ingredients", !.pg_ingredients = found]

get_recipes_by_ingredient_names_q2(q, joined) ==
    [q EXCEPT !.pc = "recipes", !.pg_recipes = select_recipes(joined)]

get_recipes_by_ingredient_names_q3(q, ings) ==
    LET kept == filter_zip(grouped_by(ings, q.pg_recipes), q.pg_recipes, q.pg_ingredients)
    IN  Done(q, Ok([k \in 1..Len(kept) |-> from_pg(kept[k][2], kept[k][1])]))

-----------------------------------------------------------------------------
(* Session cookie *)

None == <<"None">>

Some(x) == <<"Some", x>>

Tokens == SeqsUpTo(Chars, MaxTokenLen)

IsDelimAt(s, i) == i >= 1 /\ i + 1 <= Len(s) /\ s[i] = "#" /\ s[i + 1] = "#"

RECURSIVE split_single(_)
\* a split on the single character "#"
split_single(s) ==
    IF \E i \in 1..Len(s) : s[i] = "#"
    THEN LET i == CHOOSE k \in 1..Len(s) : s[k] = "#" /\ \A j \in 1..(k - 1) : s[j] # "#"
         IN  <<SubSeq(s, 1, i - 1)>> \o split_single(SubSeq(s, i + 1, Len(s)))
    ELSE <<s>>

RECURSIVE split(_)
\* str::split("##"): the segments between the leftmost non-overlapping matches
split(s) ==
    IF \E i \in 1..Len(s) : IsDelimAt(s, i)
    THEN LET i == CHOOSE k \in 1..Len(s) : IsDelimAt(s, k) /\ \A j \in 1..(k - 1) : ~IsDelimAt(s, j)
         IN  <<SubSeq(s, 1, i - 1)>> \o split(SubSeq(s, i + 2, Len(s)))
    ELSE <<s>>

\* Iterator::nth(0) taken n times: the n-th item, if there is one
nth0(items, n) == IF n <= Len(items) THEN Some(items[n]) ELSE None

parse_session_cookie(token_cookie) ==
    LET splitted == split(token_cookie)
        user == nth0(splitted, 1)
        token == nth0(splitted, 2)
    IN  IF user # None /\ token # None THEN <<user, token>> ELSE <<None, None>>

get_context(token_cookie) ==
    LET parsed == IF token_cookie # None THEN parse_session_cookie(token_cookie[2]) ELSE <<None, None>>
    IN  [token_cookie |-> token_cookie, username |-> parsed[1], session_token |-> parsed[2]]

-----------------------------------------------------------------------------
(* Initial state *)

Init ==
    /\ db = EmptyDb
    /\ tx = IdleTx
    /\ rd = IdleRd
    /\ commits = 0
    /\ request = get_context(None)

-----------------------------------------------------------------------------
(* Requests served one after another: each handler runs to completion, and  *)
(* the next request starts once the response has been handed back           *)

InsertRecipe ==
    /\ rd.pc = "idle"
    /\ commits < MaxCommits
    /\ \E recipe \in NewRecipes, fail_at \in 0..4 :
        LET t == run_from(tx_begin(db, recipe), 1, fail_at)
        IN  /\ tx' = t
            /\ db' = transaction(db, t)
            /\ commits' = IF t.pc = "committed" THEN commits + 1 ELSE commits
    /\ UNCHANGED <<rd, request>>

RecipeByName ==
    /\ rd.pc = "idle"
    /\ \E name \in RecipeNames :
        LET q1 == get_recipe_by_name_q1(StartRd("recipe_by_name", name, <<>>), db)
        IN  IF q1.pc = "done"
            THEN rd' = q1
            ELSE \E ings \in Orders(assoc_join_ingredients(db, q1.pg_recipes)) :
                    rd' = get_recipe_by_name_q2(q1, ings)
    /\ UNCHANGED <<db, tx, commits, request>>

RecipesByIngredient ==
    /\ rd.pc = "idle"
    /\ \E name \in IngredientNames :
        LET q1 == get_recipes_by_ingredient_name_q1(StartRd("recipes_by_ingredient", name, <<>>), db)
        IN  IF q1.pc = "done"
            THEN rd' = q1
            ELSE \E joined \in Orders(assoc_join_recipes(db, q1.pg_ingredients)) :
                    LET q2 == get_recipes_by_ingredient_name_q2(q1, joined)
                    IN  \E ings \in Orders(assoc_join_ingredients(db, q2.pg_recipes)) :
                            rd' = get_recipes_by_ingredient_name_q3(q2, ings)
    /\ UNCHANGED <<db, tx, commits, request>>

RecipesByIngredients ==
    /\ rd.pc = "idle"
    /\ \E names \in NameLists :
        \E found \in Orders(rows_named_any(db.ingredients, names)) :
            LET q1 == get_recipes_by_ingredient_names_q1(StartRd("recipes_by_ingredients", "", names), found)
            IN  IF q1.pc = "done"
                THEN rd' = q1
                ELSE \E joined \in Orders(assoc_join_recipes(db, q1.pg_ingredients)) :
                        LET q2 == get_recipes_by_ingredient_names_q2(q1, joined)
                        IN  \E ings \in Orders(assoc_join_ingredients(db, q2.pg_recipes)) :
                                rd' = get_recipes_by_ingredient_names_q3(q2, ings)
    /\ UNCHANGED <<db, tx, commits, request>>

\* the response is handed to the caller and the connection goes back to the pool
Respond ==
    /\ rd.pc = "done"
    /\ rd' = IdleRd
    /\ UNCHANGED <<db, tx, commits, request>>

Next == InsertRecipe \/ RecipeByName \/ RecipesByIngredient \/ RecipesByIngredients \/ Respond

Spec == Init /\ [][Next]_vars

-----------------------------------------------------------------------------
(* One connection writing and one reading, a store round trip at a time *)

Reading(op, pc) == rd.op = op /\ rd.pc = pc

\* BEGIN and the recipe upsert
TxRecipe ==
    /\ ~TxOpen
    /\ commits < MaxCommits
    /\ \E recipe \in NewRecipes, store_error \in BOOLEAN :
        tx' = tx_step(tx_begin(db, recipe), store_error)
    /\ db' = transaction(db, tx')
    /\ UNCHANGED <<rd, commits, request>>

\* the ingredient upsert, the association upsert, then COMMIT
TxNext ==
    /\ TxOpen
    /\ \E store_error \in BOOLEAN : tx' = tx_step(tx, store_error)
    /\ db' = transaction(db, tx')
    /\ commits' = IF tx'.pc = "committed" THEN commits + 1 ELSE commits
    /\ UNCHANGED <<rd, request>>

RecipeByNameRecipe ==
    /\ rd.pc = "idle"
    /\ \E name \in RecipeNames :
        rd' = get_recipe_by_name_q1(StartRd("recipe_by_name", name, <<>>), db)
    /\ UNCHANGED <<db, tx, commits, request>>

RecipeByNameIngredients ==
    /\ Reading("recipe_by_name", "recipe")
    /\ \E ings \in Orders(assoc_join_ingredients(db, rd.pg_recipes)) :
        rd' = get_recipe_by_name_q2(rd, ings)
    /\ UNCHANGED <<db, tx, commits, request>>

RecipesByIngredientIngredient ==
    /\ rd.pc = "idle"
    /\ \E name \in IngredientNames :
        rd' = get_recipes_by_ingredient_name_q1(StartRd("recipes_by_ingredient", name, <<>>), db)
    /\ UNCHANGED <<db, tx, commits, request>>

RecipesByIngredientRecipes ==
    /\ Reading("recipes_by_ingredient", "ingredient")
    /\ \E joined \in Orders(assoc_join_recipes(db, rd.pg_ingredients)) :
        rd' = get_recipes_by_ingredient_name_q2(rd, joined)
    /\ UNCHANGED <<db, tx, commits, request>>

RecipesByIngredientIngredients ==
    /\ Reading("recipes_by_ingredient", "recipes")
    /\ \E ings \in Orders(assoc_join_ingredients(db, rd.pg_recipes)) :
        rd' = get_recipes_by_ingredient_name_q3(rd, ings)
    /\ UNCHANGED <<db, tx, commits, request>>

RecipesByIngredientsIngredients ==
    /\ rd.pc = "idle"
    /\ \E names \in NameLists :
        \E found \in Orders(rows_named_any(db.ingredients, names)) :
            rd' = get_recipes_by_ingredient_names_q1(StartRd("recipes_by_ingredients", "", names), found)
    /\ UNCHANGED <<db, tx, commits, request>>

RecipesByIngredientsRecipes ==
    /\ Reading("recipes_by_ingredients", "ingredients")
    /\ \E joined \in Orders(assoc_join_recipes(db, rd.pg_ingredients)) :
        rd' = get_recipes_by_ingredient_names_q2(rd, joined)
    /\ UNCHANGED <<db, tx, commits, request>>

RecipesByIngredientsAssociations ==
    /\ Reading("recipes_by_ingredients", "recipes")
    /\ \E ings \in Orders(assoc_join_ingredients(db, rd.pg_recipes)) :
        rd' = get_recipes_by_ingredient_names_q3(rd, ings)
    /\ UNCHANGED <<db, tx, commits, request>>

NextConc ==
    \/ TxRecipe
    \/ TxNext
    \/ RecipeByNameRecipe
    \/ RecipeByNameIngredients
    \/ RecipesByIngredientIngredient
    \/ RecipesByIngredientRecipes
    \/ RecipesByIngredientIngredients
    \/ RecipesByIngredientsIngredients
    \/ RecipesByIngredientsRecipes
    \/ RecipesByIngredientsAssociations
    \/ Respond

SpecConc == Init /\ [][NextConc]_vars

-----------------------------------------------------------------------------
(* The request context of one request *)

GetContext ==
    /\ \E token_cookie \in {None} \cup {Some(c) : c \in Tokens} :
        request' = get_context(token_cookie)
    /\ UNCHANGED <<db, tx, rd, commits>>

SpecCookie == Init /\ [][GetContext]_vars

-----------------------------------------------------------------------------
(* What the store holds, as the claims speak of it *)

\* the (ingredient name, quantity) pairs stored for the recipe named rname
StoredPairs(d, rname) ==
    {[name |-> x[2].name, qty |-> x[1].qty] :
        x \in {y \in d.recipe_ingredients \X d.ingredients :
                /\ y[1].ingredient_id = y[2].id
                /\ \E r \in d.recipes : r.name = rname /\ r.id = y[1].recipe_id}}

StoredNames(d, rname) == {p.name : p \in StoredPairs(d, rname)}

AllStored(d, names) == \A n \in Range(names) : HasName(d.ingredients, n)

Count(s, x) == Cardinality({k \in 1..Len(s) : s[k] = x})

ReturnedNames == [k \in 1..Len(rd.result.recipes) |-> rd.result.recipes[k].name]

Finished(op) == rd.pc = "done" /\ rd.op = op

\* each returned recipe lists exactly the pairs stored for it, each once
CompleteLists(d) ==
    \A k \in 1..Len(rd.result.recipes) :
        LET r == rd.result.recipes[k]
        IN  /\ Range(r.ingredients) = StoredPairs(d, r.name)
            /\ Len(r.ingredients) = Cardinality(StoredPairs(d, r.name))

HasDuplicates(s) == Cardinality(Range(s)) < Len(s)

-----------------------------------------------------------------------------
(* Claims *)

\* C1: for every non-empty name list whose names are all stored,
\* recipesByIngredients returns a recipe exactly when the recipe's stored
\* ingredient names include every requested name.
C1_SupersetMatch ==
    (Finished("recipes_by_ingredients") /\ rd.names # <<>> /\ AllStored(db, rd.names))
        => \A r \in db.recipes :
            (\E k \in 1..Len(rd.result.recipes) : rd.result.recipes[k].name = r.name)
                <=> Range(rd.names) \subseteq StoredNames(db, r.name)

\* C2: recipesByIngredients fails with "Not all ingredients found" (wanted vs.
\* found, no recipes) exactly when some requested name is not stored.
C2_AllOrNothingResolution ==
    Finished("recipes_by_ingredients")
        => ((/\ rd.result.status = "err"
             /\ rd.result.msg = "Not all ingredients found"
             /\ rd.result.wanted = rd.names
             /\ Range(rd.result.found) = rows_named_any(db.ingredients, rd.names)
             /\ rd.result.recipes = <<>>)
            <=> ~AllStored(db, rd.names))

\* C3: a request list that names a stored ingredient twice resolves: the
\* operation succeeds and returns the recipes the distinct names select.
C3_DuplicateNamesResolve ==
    (Finished("recipes_by_ingredients") /\ HasDuplicates(rd.names) /\ AllStored(db, rd.names))
        => /\ rd.result.status = "ok"
           /\ Range(ReturnedNames) =
                {r.name : r \in {x \in db.recipes : Range(rd.names) \subseteq StoredNames(db, x.name)}}

\* C4: recipeByName / recipesByIngredient on a key that is not stored fail with
\* an error carrying the key; on a stored key they succeed, and a success is
\* never empty.
C4_NotFoundCarriesKey ==
    /\ Finished("recipe_by_name") =>
        IF HasName(db.recipes, rd.name)
        THEN /\ rd.result.status = "ok"
             /\ Len(rd.result.recipes) = 1
             /\ rd.result.recipes[1].name = rd.name
        ELSE rd.result = [NoResult EXCEPT !.status = "err", !.msg = "No recipe with name", !.key = rd.name]
    /\ Finished("recipes_by_ingredient") =>
        IF HasName(db.ingredients, rd.name)
        THEN /\ rd.result.status = "ok"
             /\ rd.result.recipes # <<>>
        ELSE rd.result = [NoResult EXCEPT !.status = "err", !.msg = "No ingredient with name", !.key = rd.name]

\* a lookup of a recipe that is not stored, in a store that holds another one
C4_Witness ==
    /\ Finished("recipe_by_name")
    /\ rd.result.status = "err"
    /\ rd.result.key = "Omelette"
    /\ HasName(db.recipes, "Pancakes")

\* C5: every recipe a query returns carries exactly the association rows the
\* store held for it when the query's last statement ran (no transaction has
\* committed since), also when transactions committed between its statements.
C5_CompleteIngredientLists ==
    (rd.pc = "done" /\ rd.result.status = "ok" /\ rd.finished = commits) => CompleteLists(db)

\* a query whose statements straddle the commit that gave a returned recipe its
\* second ingredient
C5_Witness ==
    /\ Finished("recipes_by_ingredient")
    /\ rd.result.status = "ok"
    /\ rd.started < rd.finished
    /\ rd.finished = commits
    /\ tx.pc = "committed"
    /\ \E k \in 1..Len(rd.result.recipes) :
        /\ rd.result.recipes[k].name = tx.recipe.name
        /\ Len(rd.result.recipes[k].ingredients) = 2
        /\ Cardinality(StoredPairs(tx.before, tx.recipe.name)) = 1

UniqueRows(d) ==
    /\ \A a, b \in d.recipes : (a.name = b.name \/ a.id = b.id) => a = b
    /\ \A a, b \in d.ingredients : (a.name = b.name \/ a.id = b.id) => a = b
    /\ \A a, b \in d.recipe_ingredients :
        (a.recipe_id = b.recipe_id /\ a.ingredient_id = b.ingredient_id) => a = b

\* the recipe and every ingredient the call names are already associated
Resubmission(t) ==
    /\ HasName(t.before.recipes, t.recipe.name)
    /\ \A k \in 1..Len(t.recipe.ingredients) :
        t.recipe.ingredients[k].name \in StoredNames(t.before, t.recipe.name)

\* C6: the store never holds two recipe rows of one name, two ingredient rows
\* of one name or two association rows of one (recipe, ingredient) pair; a
\* committed call that names only what is already stored adds no row, and every
\* association a committed call names holds that call's quantity.
C6_IdempotentUpsert ==
    /\ UniqueRows(db)
    /\ tx.pc = "committed" =>
        /\ \A k \in 1..Len(tx.recipe.ingredients) :
            tx.recipe.ingredients[k] \in StoredPairs(db, tx.recipe.name)
        /\ Resubmission(tx) =>
            /\ db.recipes = tx.before.recipes
            /\ db.ingredients = tx.before.ingredients
            /\ Cardinality(db.recipe_ingredients) = Cardinality(tx.before.recipe_ingredients)

\* the second call changes the quantity of an association the first one stored
C6_Witness ==
    /\ tx.pc = "committed"
    /\ Resubmission(tx)
    /\ tx.recipe.ingredients # <<>>
    /\ tx.recipe.ingredients[1] \notin StoredPairs(tx.before, tx.recipe.name)
    /\ tx.recipe.ingredients[1] \in StoredPairs(db, tx.recipe.name)

\* C7: after insertRecipe(newRecipe) has committed, recipeByName(newRecipe.name)
\* returns exactly newRecipe's (ingredient name, quantity) pairs.
C7_InsertThenReadRoundTrip ==
    (tx.pc = "committed" /\ Finished("recipe_by_name") /\ rd.name = tx.recipe.name)
        => /\ rd.result.status = "ok"
           /\ Len(rd.result.recipes) = 1
           /\ Range(rd.result.recipes[1].ingredients) = Range(tx.recipe.ingredients)

\* every write the call asked for is in the store
HasAllWrites(d, recipe) ==
    \E r \in d.recipes :
        /\ r.name = recipe.name
        /\ \A k \in 1..Len(recipe.ingredients) :
            \E i \in d.ingredients :
                /\ i.name = recipe.ingredients[k].name
                /\ [recipe_id |-> r.id, ingredient_id |-> i.id, qty |-> recipe.ingredients[k].qty]
                        \in d.recipe_ingredients

\* C8: what other connections can read is the store as it was before the call
\* while the transaction is open and after it has rolled back, and holds every
\* write of the call once it has committed; no ingredient row is ever readable
\* without an association, no association without its recipe and ingredient.
C8_AtomicInsert ==
    /\ (TxOpen \/ tx.pc = "rolled_back") => db = tx.before
    /\ tx.pc = "committed" =>
        /\ HasAllWrites(db, tx.recipe)
        /\ tx.before.recipes \subseteq db.recipes
        /\ tx.before.ingredients \subseteq db.ingredients
    /\ \A i \in db.ingredients : \E ri \in db.recipe_ingredients : ri.ingredient_id = i.id
    /\ \A ri \in db.recipe_ingredients :
        /\ \E r \in db.recipes : r.id = ri.recipe_id
        /\ \E i \in db.ingredients : i.id = ri.ingredient_id

\* a query is between two of its statements while the transaction holds
\* uncommitted recipe, ingredient and association rows
C8_Witness ==
    /\ tx.pc = "recipe_ingredients"
    /\ tx.work.recipes # db.recipes
    /\ tx.work.ingredients # db.ingredients
    /\ tx.work.recipe_ingredients # db.recipe_ingredients
    /\ Reading("recipes_by_ingredients", "recipes")

HasDelim(s) == \E i \in 1..Len(s) : IsDelimAt(s, i)

FirstDelim(s) == CHOOSE i \in 1..Len(s) : IsDelimAt(s, i) /\ \A j \in 1..(i - 1) : ~IsDelimAt(s, j)

Alice == <<"a", "l", "i", "c", "e">>

Tok123 == <<"t", "o", "k", "1", "2", "3">>

Malformed == <<"m", "a", "l", "f", "o", "r", "m", "e", "d">>

\* C9: the parsed pair is (text before the first "##", text between it and the
\* next "##" or the end) when the cookie holds "##", and (None, None) when it
\* does not; both parts are present or both absent.
C9_ParseSessionCookie ==
    /\ (request.username = None) <=> (request.session_token = None)
    /\ request.token_cookie = None => request.username = None
    /\ request.token_cookie # None =>
        LET s == request.token_cookie[2]
        IN  IF HasDelim(s)
            THEN LET i == FirstDelim(s)
                     rest == SubSeq(s, i + 2, Len(s))
                     stop == IF HasDelim(rest) THEN FirstDelim(rest) - 1 ELSE Len(rest)
                 IN  /\ request.username = Some(SubSeq(s, 1, i - 1))
                     /\ request.session_token = Some(SubSeq(rest, 1, stop))
            ELSE request.username = None /\ request.session_token = None
    /\ parse_session_cookie(Alice \o <<"#", "#">> \o Tok123) = <<Some(Alice), Some(Tok123)>>
    /\ parse_session_cookie(Malformed) = <<None, None>>

\* a cookie of three segments: the third is ignored
C9_Witness ==
    /\ request.token_cookie = Some(<<"a", "#", "#", "#", "#">>)
    /\ request.username = Some(<<"a">>)
    /\ request.session_token = Some(<<>>)

\* C10: a successful recipesByIngredients over a non-empty list returns every
\* recipe that has all the requested ingredients exactly once and no other
\* recipe, each with its whole ingredient list, however often the recipe
\* occurs among the candidates.
C10_NoDuplicateRecipes ==
    (Finished("recipes_by_ingredients") /\ rd.result.status = "ok" /\ rd.names # <<>>)
        => /\ \A r \in db.recipes :
                Count(ReturnedNames, r.name) =
                    IF Range(rd.names) \subseteq StoredNames(db, r.name) THEN 1 ELSE 0
           /\ CompleteLists(db)

\* two recipes, each twice among the candidates, each returned once
C10_Witness ==
    /\ Finished("recipes_by_ingredients")
    /\ rd.result.status = "ok"
    /\ Len(rd.pg_recipes) = 4
    /\ Cardinality(Range(rd.pg_recipes)) = 2
    /\ Len(rd.result.recipes) = 2

====
